---- MODULE Spec2Model ----
(***************************************************************************)
(* Model of the poll application: the vote store (table votes), the vote  *)
(* page PollDetail, the results page PollResultPage and the presence      *)
(* channel of a poll.                                                      *)
(***************************************************************************)
EXTENDS Integers, Sequences, FiniteSets, TLC

(* ---------------------------------------------------------------------- *)
(* Bounds                                                                  *)
(* ---------------------------------------------------------------------- *)
\* selected options the vote table may hold, over all its rows
MaxTotalVotes == 3
\* vote upserts one page may have in flight
MaxUpserts == 1
\* vote reads the results page may have in flight
MaxReads == 2
\* change notifications waiting to be delivered to the results page
MaxNotifs == 2
\* the clock runs 0..MaxTime
MaxTime == 1
\* polls created while the poll list is watched
MaxCreated == 2
\* fetchPolls queries in flight
MaxFetches == 1
\* INSERT events waiting to be delivered to the poll list
MaxInserts == 2
\* the pages of the poll list run 1..MaxPage
MaxPage == 2
\* removals of the channel realtime-polls that may be under way at once
MaxRemoving == 1

(* ---------------------------------------------------------------------- *)
(* Values                                                                  *)
(* ---------------------------------------------------------------------- *)
\* JavaScript null / SQL NULL, for a value that is otherwise a string
NULL == "null"
\* null for a value that is otherwise a number or an object: a nullable
\* value v of that kind is written <<v>>
Null == <<>>
\* authenticated identities (auth.getUser().user.id)
Users == {"u1", "u2"}
\* open PollDetail pages: two tabs of one browser, sharing localStorage
Pages == {"p1", "p2"}
\* poll.options of the poll under view
Options == <<"Red", "Blue">>
\* an option label that is not among poll.options
Undeclared == "Green"
\* pages that view the poll in this browser, each with its presence effect
Sessions == {"s1", "s2", "s3"}
\* statuses the subscribe callback may be called with
SubscribeStates == {"SUBSCRIBED", "CHANNEL_ERROR", "TIMED_OUT"}
\* values crypto.randomUUID() may return
Tokens == {"t1", "t2"}
\* poll.ends_at when the poll has an end date: the last instant but one
EndsAt == MaxTime - 1

Range(s) == {s[i] : i \in DOMAIN s}

\* the sequences over S of length 1 .. Cardinality(S)
Seq1(S) == UNION {[1..n -> S] : n \in 1..Cardinality(S)}

\* s without its i-th element
RemoveAt(s, i) == [j \in 1..(Len(s) - 1) |-> IF j < i THEN s[j] ELSE s[j + 1]]

(* ---------------------------------------------------------------------- *)
(* State                                                                   *)
(* ---------------------------------------------------------------------- *)
VARIABLES
    now,          \* new Date().getTime()
    poll,         \* the row of table polls under view
    votes,        \* table votes, rows of this poll in insertion order
    localStorage, \* the browser's localStorage: poll_<id>_voted, anon_id and
                  \* the session of supabase.auth as CreatePoll's route reads it
    pd,           \* state of each PollDetail page
    upserts,      \* vote upserts issued by onSubmit and not yet handled
    rp,           \* state of the PollResultPage
    reads,        \* fetchVotes calls in flight
    notifs,       \* postgres_changes events on their way to the results page
    sess,         \* the presence effect of each page that views the poll
    nav,          \* what a change of the results page's poll id left or started
    pollsTable,   \* table polls, in insertion order
    pl,           \* state of the PollList page
    fetches,      \* fetchPolls queries in flight
    inserts,      \* INSERT events of table polls on their way to PollList
    cp            \* state of the CreatePoll page

\* the variables of the poll list and of the poll form
listVars == <<pollsTable, pl, fetches, inserts, cp>>

vars == <<now, poll, votes, localStorage, pd, upserts, rp, reads, notifs, sess,
          nav, listVars>>

\* all of them but sess
voteVars == <<now, poll, votes, localStorage, pd, upserts, rp, reads, notifs,
              nav, listVars>>

(* ---------------------------------------------------------------------- *)
(* Vote table                                                              *)
(* ---------------------------------------------------------------------- *)
\* index of the row the upsert conflicts with, 0 when there is none.  The
\* conflict target is the unique key (poll_id, user_id); a NULL user_id
\* never equals another NULL in a unique index, so it never conflicts.
ConflictRow(vs, user_id) ==
    IF user_id = NULL \/ ~(\E i \in DOMAIN vs : vs[i].user_id = user_id)
    THEN 0
    ELSE CHOOSE i \in DOMAIN vs : vs[i].user_id = user_id

\* a faulty variant of Upsert: inserts without looking for a conflicting row
UpsertAlwaysInserts(vs, user_id, selected) ==
    Append(vs, [user_id |-> user_id, selected_options |-> selected])

\* supabase.from("votes").upsert({poll_id, user_id, selected_options},
\*                              {onConflict: "poll_id,user_id"})
Upsert(vs, user_id, selected) ==
    IF ConflictRow(vs, user_id) = 0
    THEN Append(vs, [user_id |-> user_id, selected_options |-> selected])
    ELSE [vs EXCEPT ![ConflictRow(vs, user_id)].selected_options = selected]

\* supabase.from("votes").select("selected_options").eq("poll_id", pollId)
SelectVotes(vs) == [i \in DOMAIN vs |-> [selected_options |-> vs[i].selected_options]]

\* a faulty variant of TotalVotes: counts the vote rows
TotalVotesRows(vs) == Len(vs)

\* votes.reduce((acc, v) => acc + v.selected_options.length, 0)
RECURSIVE TotalVotes(_)
TotalVotes(vs) ==
    IF vs = <<>> THEN 0
    ELSE Len(Head(vs).selected_options) + TotalVotes(Tail(vs))

\* votes.some(v => v.user_id === uid)
SomeVoteOf(vs, uid) == \E i \in DOMAIN vs : vs[i].user_id = uid

(* ---------------------------------------------------------------------- *)
(* PollDetail                                                              *)
(* ---------------------------------------------------------------------- *)
\* isExpired, as computed by a render at time t
IsExpired(p, t) == IF p.ends_at # Null THEN p.ends_at[1] < t ELSE FALSE

\* prev.filter(o => o !== option)
RECURSIVE Without(_, _)
Without(sel, option) ==
    IF sel = <<>> THEN <<>>
    ELSE IF Head(sel) = option THEN Without(Tail(sel), option)
         ELSE <<Head(sel)>> \o Without(Tail(sel), option)

\* a faulty variant of Toggle: the option is added whatever the list holds
ToggleAppends(prev, option, allowMultiple) == Append(prev, option)

\* the updater handleChange passes to setSelected
Toggle(prev, option, allowMultiple) ==
    IF allowMultiple
    THEN IF option \in Range(prev) THEN Without(prev, option) ELSE Append(prev, option)
    ELSE <<option>>

\* the vote table and the upserts in flight leave room for one more vote
HasRoom(selected) ==
    TotalVotes(votes) + TotalVotes(upserts) + Len(selected) <= MaxTotalVotes

\* the poll under view and another poll
PollIds == {"P", "Q"}

\* const voteKey = `poll_${pollId}_voted`, as the field of localStorage that
\* stands for it
VoteKey(pollId) == IF pollId = "P" THEN "voted" ELSE "votedOther"

\* a faulty variant of MarkVoted: the key does not depend on the poll
MarkVotedAnyPoll(ls, pollId) == [ls EXCEPT !.voted = TRUE, !.votedOther = TRUE]

\* const markVoted = () => localStorage.setItem(voteKey, "true")
MarkVoted(ls, pollId) == [ls EXCEPT ![VoteKey(pollId)] = TRUE]

ClosedPage == [st |-> "closed", uid |-> NULL, hasVoted |-> FALSE,
               selected |-> <<>>, isExpired |-> FALSE]

(* ---------------------------------------------------------------------- *)
(* PollResultPage                                                          *)
(* ---------------------------------------------------------------------- *)
\* const counts = {}
NoCounts == [o \in {} |-> 0]

\* a faulty variant of CountOptions: an option that was not declared gets a key too
CountOptionsNoGuard(counts, sel) ==
    LET keys == DOMAIN counts \cup Range(sel)
    IN  [o \in keys |-> (IF o \in DOMAIN counts THEN counts[o] ELSE 0)
                        + Cardinality({j \in DOMAIN sel : sel[j] = o})]

\* vote.selected_options.forEach(opt => { if (counts[opt] !== undefined) counts[opt]++ })
RECURSIVE CountOptions(_, _)
CountOptions(counts, sel) ==
    IF sel = <<>> THEN counts
    ELSE CountOptions(IF Head(sel) \in DOMAIN counts
                      THEN [counts EXCEPT ![Head(sel)] = @ + 1]
                      ELSE counts,
                      Tail(sel))

\* votes.forEach(vote => ...)
RECURSIVE CountVotes(_, _)
CountVotes(counts, vs) ==
    IF vs = <<>> THEN counts
    ELSE CountVotes(CountOptions(counts, Head(vs).selected_options), Tail(vs))

\* a faulty variant of VoteCounts: the options start from one instead of zero
VoteCountsFromOne(options, vs) ==
    CountVotes([o \in Range(options) |-> 1], vs)

\* the tally effect: every option starts at zero, then the votes are counted
VoteCounts(options, vs) ==
    CountVotes([o \in Range(options) |-> 0], vs)

\* csv: the rows of the file the page exported last
ClosedResults == [st |-> "closed", poll |-> Null, pollPending |-> FALSE,
                  votes |-> <<>>, voteCounts |-> NoCounts, subscribed |-> FALSE,
                  csv |-> Null]

\* chartData: poll?.options.map(option => ({name: option,
\*                                          value: voteCounts[option] || 0})) || []
ChartData(r) ==
    IF r.poll = Null THEN <<>>
    ELSE [i \in DOMAIN r.poll[1].options |->
            [name |-> r.poll[1].options[i],
             value |-> IF r.poll[1].options[i] \in DOMAIN r.voteCounts
                       THEN r.voteCounts[r.poll[1].options[i]] ELSE 0]]

\* the decimal digits as characters
DigitChar == <<"0", "1", "2", "3", "4", "5", "6", "7", "8", "9">>

\* the decimal numeral of the natural number n
RECURSIVE Decimal(_)
Decimal(n) ==
    IF n < 10 THEN <<DigitChar[n + 1]>>
    ELSE Decimal(n \div 10) \o <<DigitChar[(n % 10) + 1]>>

\* the numeral with two decimals of h hundredths
Fixed2(h) ==
    Decimal(h \div 100) \o <<".", DigitChar[((h % 100) \div 10) + 1], DigitChar[(h % 10) + 1]>>

\* a faulty variant of ToFixed2: the decimals after the second are cut off
ToFixed2Truncates(value, total) == Fixed2((value * 10000) \div total)

\* ((value / total) * 100).toFixed(2): the quotient in hundredths, rounded
\* to the nearest
ToFixed2(value, total) == Fixed2((2 * value * 10000 + total) \div (2 * total))

\* the percent of the bar view and of the list view
ScreenPercent(value, total) ==
    IF total > 0 THEN ToFixed2(value, total) ELSE <<"0", ".", "0", "0">>

\* the percent of the CSV export
CsvPercent(value, total) ==
    IF total > 0 THEN ToFixed2(value, total) \o <<"%">> ELSE <<"0", "%">>

\* csvRows of handleExportCSV
CsvRows(r) ==
    [i \in DOMAIN ChartData(r) |->
        [name |-> ChartData(r)[i].name, value |-> ChartData(r)[i].value,
         percent |-> CsvPercent(ChartData(r)[i].value, TotalVotes(r.votes))]]

\* a faulty variant of TallyEffect: the votes are added to the counts the
\* page has
TallyEffectAccumulates(r) ==
    IF r.poll = Null THEN r
    ELSE [r EXCEPT !.voteCounts =
            CountVotes([o \in Range(r.poll[1].options) |->
                           IF o \in DOMAIN r.voteCounts THEN r.voteCounts[o] ELSE 0],
                       r.votes)]

\* the tally effect runs after a render in which votes or poll changed
TallyEffect(r) ==
    IF r.poll = Null THEN r
    ELSE [r EXCEPT !.voteCounts = VoteCounts(r.poll[1].options, r.votes)]

(* ---------------------------------------------------------------------- *)
(* Presence                                                                *)
(* ---------------------------------------------------------------------- *)
NoSession == [st |-> "idle", key |-> NULL, viewersCount |-> 0, poll |-> NULL]

\* the sessions the presence channel of the poll holds as tracked
TrackedSessions == {s \in Sessions : sess[s].st = "tracked"}

\* the presence state of the channel presence-poll-<id>: each joined key
\* with the number of its presences
Presences(pollId) ==
    LET joined == {s \in TrackedSessions : sess[s].poll = pollId}
    IN  [k \in {sess[s].key : s \in joined} |->
            Cardinality({s \in joined : sess[s].key = k})]

\* a faulty variant of KeysLength: counts the presences, not the keys
RECURSIVE PresencesLength(_)
PresencesLength(state) ==
    IF DOMAIN state = {} THEN 0
    ELSE LET k == CHOOSE x \in DOMAIN state : TRUE
         IN  state[k] + PresencesLength([x \in DOMAIN state \ {k} |-> state[x]])

\* Object.keys(state).length
KeysLength(state) == Cardinality(DOMAIN state)

(* ---------------------------------------------------------------------- *)
(* PollList                                                                *)
(* ---------------------------------------------------------------------- *)
\* a text (a question, a search term, an option label) is the sequence of
\* its characters
PAGE_SIZE == 10

\* String.prototype.trim, leading part
RECURSIVE TrimStart(_)
TrimStart(s) == IF s # <<>> /\ Head(s) = " " THEN TrimStart(Tail(s)) ELSE s

\* String.prototype.trim, trailing part
RECURSIVE TrimEnd(_)
TrimEnd(s) ==
    IF s # <<>> /\ s[Len(s)] = " " THEN TrimEnd(SubSeq(s, 1, Len(s) - 1)) ELSE s

\* String.prototype.trim
Trim(s) == TrimEnd(TrimStart(s))

\* question ILIKE %term%
Contains(text, term) ==
    \E i \in 0..(Len(text) - Len(term)) : SubSeq(text, i + 1, i + Len(term)) = term

\* ORDER BY created_at DESC of rows held in insertion order
Reverse(s) == [i \in 1..Len(s) |-> s[Len(s) + 1 - i]]

\* Array.prototype.slice(from, to) and the query's .range(from, to - 1)
Slice(s, from, to) ==
    IF from >= Len(s) THEN <<>>
    ELSE SubSeq(s, from + 1, IF to < Len(s) THEN to ELSE Len(s))

\* the texts typed in the search box
Searches == {<<>>, <<" ">>, <<"q">>}
\* the filters chosen
Filters == {"all", "mine", "oldest"}
\* the creator and the question of a poll that is created
Kinds == {[created_by |-> "u1", question |-> <<"q">>],
          [created_by |-> "u2", question |-> <<"z">>]}

\* a row of table polls
PollRow(id, kind, options) ==
    [id |-> id, question |-> kind.question, options |-> options,
     created_by |-> kind.created_by]

\* the polls the table holds from the start
SeedPolls ==
    [i \in 1..(PAGE_SIZE - 1) |->
        PollRow(i, [created_by |-> "u2", question |-> <<"z">>], Options)]

\* a faulty variant of FetchResult: the range ends one row too late
FetchResultOneMore(table, q) ==
    LET Mine(r) == r.created_by = q.userId
        Found(r) == Contains(r.question, q.search)
        filtered == IF q.filter = "mine" THEN SelectSeq(table, Mine) ELSE table
        ordered == IF q.filter = "oldest" THEN filtered ELSE Reverse(filtered)
        searched == IF Trim(q.search) # <<>> THEN SelectSeq(ordered, Found)
                    ELSE ordered
    IN  Slice(searched, (q.page - 1) * PAGE_SIZE, q.page * PAGE_SIZE + 1)

\* the rows the query of fetchPolls selects: the filter and its order, the
\* search, then the range of the page
FetchResult(table, q) ==
    LET Mine(r) == r.created_by = q.userId
        Found(r) == Contains(r.question, q.search)
        filtered == IF q.filter = "mine" THEN SelectSeq(table, Mine) ELSE table
        ordered == IF q.filter = "oldest" THEN filtered ELSE Reverse(filtered)
        searched == IF Trim(q.search) # <<>> THEN SelectSeq(ordered, Found)
                    ELSE ordered
    IN  Slice(searched, (q.page - 1) * PAGE_SIZE, q.page * PAGE_SIZE)

\* a faulty variant of Admits: the filter is not looked at
AdmitsAnyFilter(page, search, filter) == page = 1 /\ Trim(search) = <<>>

\* the admission test of the insert listener
Admits(page, search, filter) == page = 1 /\ Trim(search) = <<>> /\ filter = "all"

\* a faulty variant of Prepend: the previous list is kept whole
PrependNoSlice(prev, newPoll) == <<newPoll>> \o prev

\* [newPoll, ...prev.slice(0, PAGE_SIZE - 1)]
Prepend(prev, newPoll) == <<newPoll>> \o Slice(prev, 0, PAGE_SIZE - 1)

\* a faulty variant of Exists: no poll is found in the list
ExistsNever(prev, newPoll) == FALSE

\* prev.some(p => p.id === newPoll.id)
Exists(prev, newPoll) == \E i \in DOMAIN prev : prev[i].id = newPoll.id

\* the updater the insert listener passes to setPolls
Admit(prev, newPoll) ==
    IF Exists(prev, newPoll) THEN prev ELSE Prepend(prev, newPoll)

\* the search and the filter of a query
ContextOf(q) == [search |-> q.search, filter |-> q.filter]

\* the state of the page; listed records the search and the filter of the
\* query whose answer the list on screen is, if any
ClosedList == [st |-> "closed", polls |-> <<>>, search |-> <<>>,
               debouncedSearch |-> <<>>, filter |-> "all", page |-> 1,
               userId |-> NULL, subscribed |-> FALSE, removing |-> 0,
               listed |-> Null]

\* the query fetchPolls makes from the state l
QueryOf(l) == [page |-> l.page, filter |-> l.filter, search |-> l.debouncedSearch,
               userId |-> l.userId]

(* ---------------------------------------------------------------------- *)
(* The results page after a change of its poll id                          *)
(* ---------------------------------------------------------------------- *)
\* the row of table polls the results page shows after the change
OtherPoll ==
    [options |-> <<"Yes", "No">>,
     settings |-> [allowMultiple |-> FALSE, allowVoteChange |-> FALSE],
     ends_at |-> Null]

\* the rows of table votes of that poll, as fetchVotes selects them
OtherVotes == <<[selected_options |-> <<"Yes">>]>>

\* staleReads: fetchVotes calls made for the poll id the page had before;
\* stalePoll: a fetchPollAndUser call made for it; otherPollPending and
\* otherReads: the calls made for the new poll id
NoNav == [staleReads |-> 0, stalePoll |-> FALSE,
          otherPollPending |-> FALSE, otherReads |-> 0]

(* ---------------------------------------------------------------------- *)
(* CreatePoll                                                              *)
(* ---------------------------------------------------------------------- *)
\* fields.length > 2: the option fields that cannot be removed
MinFields == 2
\* fields.length < 10: the option fields that can be reached
MaxFields == 10
\* trimmedOptions.length < 2
MinOptions == 2

\* the texts typed in an option field; a field nothing was typed in is <<>>
Labels == {<<" ">>, <<" ", "A">>}
\* the texts typed in the question field
Questions == {<<>>, <<" ", "q">>}

\* a faulty variant of TrimmedOptions: the blank options are not filtered out
TrimmedOptionsUnfiltered(options) == [i \in DOMAIN options |-> Trim(options[i])]

\* data.options.map(opt => opt.value.trim()).filter(opt => opt.length > 0)
TrimmedOptions(options) ==
    LET NonEmpty(opt) == Len(opt) > 0
    IN  SelectSeq([i \in DOMAIN options |-> Trim(options[i])], NonEmpty)

\* the validation handleSubmit makes before it calls onSubmit: the question
\* and every option field are registered as required
Valid(f) == f.question # <<>> /\ \A i \in DOMAIN f.options : f.options[i] # <<>>

\* a faulty variant of InsertPolicy: every row is admitted
InsertPolicyOpen(uid, row) == TRUE

\* the insert policy of table polls, for a request made as uid:
\* WITH CHECK (auth.uid() IS NOT NULL AND created_by = auth.uid())
InsertPolicy(uid, row) == uid # NULL /\ row.created_by = uid

ClosedForm == [st |-> "closed", question |-> <<>>, options |-> <<>>,
               toast |-> NULL, pending |-> Null]

\* useForm's defaultValues
DefaultForm == [ClosedForm EXCEPT !.st = "editing", !.options = <<<<>>, <<>>>>]

(* ---------------------------------------------------------------------- *)
(* Initial state                                                           *)
(* ---------------------------------------------------------------------- *)
Init ==
    /\ now = 0
    /\ \E am \in BOOLEAN, avc \in BOOLEAN, e \in {Null, <<EndsAt>>} :
          poll = [options |-> Options,
                  settings |-> [allowMultiple |-> am, allowVoteChange |-> avc],
                  ends_at |-> e]
    /\ votes = <<>>
    /\ localStorage = [voted |-> FALSE, votedOther |-> FALSE, anon_id |-> NULL,
                       session |-> NULL]
    /\ pd = [p \in Pages |-> ClosedPage]
    /\ upserts = <<>>
    /\ rp = ClosedResults
    /\ reads = 0
    /\ notifs = 0
    /\ sess = [s \in Sessions |-> NoSession]
    /\ nav = NoNav
    /\ pollsTable = SeedPolls
    /\ pl = ClosedList
    /\ fetches = <<>>
    /\ inserts = <<>>
    /\ cp = ClosedForm

(* ---------------------------------------------------------------------- *)
(* PollDetail actions                                                      *)
(* ---------------------------------------------------------------------- *)
\* the page is opened and fetchPollAndVote runs to its end: auth.getUser()
\* answers uid, the poll arrives with its votes, and loading ends.  Until
\* then the page shows the skeleton and takes no input.
Mount(p, uid) ==
    /\ pd[p].st = "closed"
    /\ pd' = [pd EXCEPT ![p] = [st |-> "ready", uid |-> uid,
                                hasVoted |-> IF uid # NULL
                                             THEN SomeVoteOf(votes, uid)
                                             ELSE localStorage.voted,
                                selected |-> <<>>,
                                isExpired |-> IsExpired(poll, now)]]
    /\ UNCHANGED <<listVars, nav, sess, now, poll, votes, localStorage, upserts, rp, reads, notifs>>

\* fetchPollAndVote fails: poll stays null and the page shows "Poll not found"
MountFail(p) ==
    /\ pd[p].st = "closed"
    /\ pd' = [pd EXCEPT ![p] = [ClosedPage EXCEPT !.st = "notfound"]]
    /\ UNCHANGED <<listVars, nav, sess, now, poll, votes, localStorage, upserts, rp, reads, notifs>>

\* a re-render for a reason outside the form (the viewer count changed)
Render(p) ==
    /\ pd[p].st = "ready"
    /\ pd[p].isExpired # IsExpired(poll, now)
    /\ pd' = [pd EXCEPT ![p].isExpired = IsExpired(poll, now)]
    /\ UNCHANGED <<listVars, nav, sess, now, poll, votes, localStorage, upserts, rp, reads, notifs>>

\* the user clicks an option; the inputs are disabled in an expired render
HandleChange(p, option) ==
    /\ pd[p].st = "ready"
    /\ ~pd[p].isExpired
    /\ pd' = [pd EXCEPT ![p].selected = Toggle(@, option, poll.settings.allowMultiple),
                        ![p].isExpired = IsExpired(poll, now)]
    /\ UNCHANGED <<listVars, nav, sess, now, poll, votes, localStorage, upserts, rp, reads, notifs>>

\* onSubmit up to the upsert call; the submit button is absent from an
\* expired render
OnSubmit(p) ==
    /\ pd[p].st = "ready"
    /\ ~pd[p].isExpired
    /\ Len(pd[p].selected) # 0
    /\ ~(pd[p].hasVoted /\ ~poll.settings.allowVoteChange)
    /\ Cardinality({i \in DOMAIN upserts : upserts[i].page = p}) < MaxUpserts
    /\ HasRoom(pd[p].selected)
    /\ upserts' = Append(upserts, [page |-> p, user_id |-> pd[p].uid,
                                   selected_options |-> pd[p].selected,
                                   at |-> now])
    /\ UNCHANGED <<listVars, nav, sess, now, poll, votes, localStorage, pd, rp, reads, notifs>>

\* upsert i succeeds: the store writes the row and notifies a subscribed
\* results page; onSubmit goes on with markVoted (when userId is null) and
\* navigate, which takes the tab away from the vote page
UpsertDone(i) ==
    /\ i \in DOMAIN upserts
    /\ rp.subscribed => notifs < MaxNotifs
    /\ votes' = Upsert(votes, upserts[i].user_id, upserts[i].selected_options)
    /\ notifs' = IF rp.subscribed THEN notifs + 1 ELSE notifs
    /\ localStorage' = IF upserts[i].user_id = NULL
                       THEN MarkVoted(localStorage, "P")
                       ELSE localStorage
    /\ pd' = [pd EXCEPT ![upserts[i].page] = ClosedPage]
    /\ upserts' = RemoveAt(upserts, i)
    /\ UNCHANGED <<listVars, nav, sess, now, poll, rp, reads>>

\* upsert i fails: onSubmit shows "Error submitting vote"
UpsertError(i) ==
    /\ i \in DOMAIN upserts
    /\ upserts' = RemoveAt(upserts, i)
    /\ UNCHANGED <<listVars, nav, sess, now, poll, votes, localStorage, pd, rp, reads, notifs>>

\* the user leaves the page (Back)
Unmount(p) ==
    /\ pd[p].st # "closed"
    /\ pd' = [pd EXCEPT ![p] = ClosedPage]
    /\ UNCHANGED <<listVars, nav, sess, now, poll, votes, localStorage, upserts, rp, reads, notifs>>

\* time passes; nothing is rendered
Tick ==
    /\ now < MaxTime
    /\ now' = now + 1
    /\ UNCHANGED <<listVars, nav, sess, poll, votes, localStorage, pd, upserts, rp, reads, notifs>>

(* ---------------------------------------------------------------------- *)
(* PollResultPage actions                                                  *)
(* ---------------------------------------------------------------------- *)
\* the page is opened: fetchPollAndUser and fetchVotes start, and the
\* channel poll-<id>-votes is created and asked to subscribe
ResultsOpen ==
    /\ rp.st = "closed"
    /\ rp' = [ClosedResults EXCEPT !.st = "open", !.pollPending = TRUE]
    /\ reads' = 1
    /\ UNCHANGED <<listVars, nav, sess, now, poll, votes, localStorage, pd, upserts, notifs>>

\* the channel joined: postgres_changes events are delivered from now on
ResultsSubscribed ==
    /\ rp.st = "open"
    /\ ~rp.subscribed
    /\ rp' = [rp EXCEPT !.subscribed = TRUE]
    /\ UNCHANGED <<listVars, nav, sess, now, poll, votes, localStorage, pd, upserts, reads, notifs>>

\* fetchPollAndUser after the await: setPoll(pollData), then the tally effect
FetchPollDone(found) ==
    /\ rp.st = "open"
    /\ rp.pollPending
    /\ rp' = TallyEffect([rp EXCEPT !.pollPending = FALSE,
                                    !.poll = IF found THEN <<poll>> ELSE Null])
    /\ UNCHANGED <<listVars, nav, sess, now, poll, votes, localStorage, pd, upserts, reads, notifs>>

\* fetchVotes: the select is answered with the rows the table holds, then
\* setVotes(data) and the tally effect
FetchVotesDone ==
    /\ rp.st = "open"
    /\ reads > 0
    /\ reads' = reads - 1
    /\ rp' = TallyEffect([rp EXCEPT !.votes = SelectVotes(votes)])
    /\ UNCHANGED <<listVars, nav, sess, now, poll, votes, localStorage, pd, upserts, notifs>>

\* fetchVotes: the select fails, data is null: setVotes([]) and the tally
\* effect
FetchVotesFail ==
    /\ rp.st = "open"
    /\ reads > 0
    /\ reads' = reads - 1
    /\ rp' = TallyEffect([rp EXCEPT !.votes = <<>>])
    /\ UNCHANGED <<listVars, nav, sess, now, poll, votes, localStorage, pd, upserts, notifs>>

\* a postgres_changes event reaches the page: the handler is fetchVotes
OnVotesChange ==
    /\ rp.st = "open"
    /\ notifs > 0
    /\ reads < MaxReads
    /\ notifs' = notifs - 1
    /\ reads' = reads + 1
    /\ UNCHANGED <<listVars, nav, sess, now, poll, votes, localStorage, pd, upserts, rp>>

\* the Refresh Results button of the rendered page: fetchVotes
Refresh ==
    /\ rp.st = "open"
    /\ ~rp.pollPending /\ rp.poll # Null
    /\ reads < MaxReads
    /\ reads' = reads + 1
    /\ UNCHANGED <<listVars, nav, sess, now, poll, votes, localStorage, pd, upserts, rp, notifs>>

\* the Export CSV button of the rendered page: handleExportCSV
ExportCSV ==
    /\ rp.st = "open"
    /\ ~rp.pollPending /\ rp.poll # Null
    /\ rp' = [rp EXCEPT !.csv = <<CsvRows(rp)>>]
    /\ UNCHANGED <<listVars, nav, sess, now, poll, votes, localStorage, pd, upserts, reads, notifs>>

\* the page is left: the effect cleanup removes the channel; what the reads
\* in flight return is set on a component that is gone
ResultsClose ==
    /\ rp.st # "closed"
    /\ rp' = ClosedResults
    /\ reads' = 0
    /\ notifs' = 0
    /\ nav' = NoNav
    /\ UNCHANGED <<listVars, sess, now, poll, votes, localStorage, pd, upserts>>

(* ---------------------------------------------------------------------- *)
(* A whole visit to PollDetail                                             *)
(* ---------------------------------------------------------------------- *)
\* the values of selected that n calls of handleChange reach from S
RECURSIVE Selectable(_, _, _)
Selectable(S, allowMultiple, n) ==
    IF n = 0 THEN S
    ELSE Selectable(S \cup {Toggle(sel, o, allowMultiple) : sel \in S, o \in Range(Options)},
                    allowMultiple, n - 1)

\* a visit to PollDetail taken as one step: the page is mounted with
\* identity uid, the user clicks until selected = sel and submits, and the
\* upsert succeeds
Visit(uid, sel) ==
    /\ sel \in Selectable({<<>>}, poll.settings.allowMultiple, Len(Options))
    /\ Len(sel) # 0
    /\ ~((IF uid # NULL THEN SomeVoteOf(votes, uid) ELSE localStorage.voted)
         /\ ~poll.settings.allowVoteChange)
    /\ HasRoom(sel)
    /\ rp.subscribed => notifs < MaxNotifs
    /\ votes' = Upsert(votes, uid, sel)
    /\ notifs' = IF rp.subscribed THEN notifs + 1 ELSE notifs
    /\ localStorage' = IF uid = NULL
                       THEN MarkVoted(localStorage, "P")
                       ELSE localStorage
    /\ UNCHANGED <<listVars, nav, sess, now, poll, pd, upserts, rp, reads>>

\* a visit of an anonymous voter to the PollDetail page of the other poll,
\* taken as one step; the votes of that poll are not part of the state
VisitOther ==
    /\ ~(localStorage[VoteKey("Q")] /\ ~OtherPoll.settings.allowVoteChange)
    /\ localStorage' = MarkVoted(localStorage, "Q")
    /\ UNCHANGED <<listVars, nav, sess, now, poll, votes, pd, upserts, rp, reads, notifs>>

(* ---------------------------------------------------------------------- *)
(* Another client of the vote table                                        *)
(* ---------------------------------------------------------------------- *)
\* the insert policy of table votes admits any row from anyone
ForeignSelections == {<<Undeclared>>, <<"Red", Undeclared>>}

ForeignInsert(sel) ==
    /\ HasRoom(sel)
    /\ ~SomeVoteOf(votes, "x1")
    /\ rp.subscribed => notifs < MaxNotifs
    /\ votes' = Append(votes, [user_id |-> "x1", selected_options |-> sel])
    /\ notifs' = IF rp.subscribed THEN notifs + 1 ELSE notifs
    /\ UNCHANGED <<listVars, nav, sess, now, poll, localStorage, pd, upserts, rp, reads>>

(* ---------------------------------------------------------------------- *)
(* Presence actions                                                        *)
(* ---------------------------------------------------------------------- *)
\* a faulty variant of Join: a new token is made and stored on every run
JoinNewToken(s, uid, token, pollId) ==
    /\ sess[s].st \in {"idle", "left"}
    /\ localStorage' = [localStorage EXCEPT !.anon_id = token]
    /\ sess' = [sess EXCEPT ![s].st = "joining", ![s].poll = pollId,
                            ![s].key = IF uid # NULL THEN uid ELSE token]
    /\ UNCHANGED <<listVars, nav, now, poll, votes, pd, upserts, rp, reads, notifs>>

\* the presence effect runs for a page that shows the poll pollId to the
\* user uid: anon_id is read or made and stored, the channel
\* presence-poll-<pollId> is created with the presence key and asked to
\* subscribe
Join(s, uid, token, pollId) ==
    /\ sess[s].st \in {"idle", "left"}
    /\ LET anonId == IF localStorage.anon_id # NULL THEN localStorage.anon_id ELSE token
       IN  /\ localStorage' = [localStorage EXCEPT !.anon_id = anonId]
           /\ sess' = [sess EXCEPT ![s].st = "joining", ![s].poll = pollId,
                                   ![s].key = IF uid # NULL THEN uid ELSE anonId]
    /\ UNCHANGED <<listVars, nav, now, poll, votes, pd, upserts, rp, reads, notifs>>

\* a faulty variant of OnSubscribeStatus: track is called on any status
OnSubscribeStatusAlwaysTracks(s, status) ==
    /\ sess[s].st = "joining"
    /\ sess' = [sess EXCEPT ![s].st = "subscribed"]
    /\ UNCHANGED voteVars

\* the subscribe callback gets a status; on SUBSCRIBED it calls track
OnSubscribeStatus(s, status) ==
    /\ sess[s].st = "joining"
    /\ sess' = [sess EXCEPT ![s].st = IF status = "SUBSCRIBED" THEN "subscribed"
                                      ELSE "failed"]
    /\ UNCHANGED voteVars

\* the channel registers the presence that track announced
Tracked(s) ==
    /\ sess[s].st = "subscribed"
    /\ sess' = [sess EXCEPT ![s].st = "tracked"]
    /\ UNCHANGED voteVars

\* the sync handler, called when the channel's presence state was brought
\* up to date: setViewersCount(Object.keys(channel.presenceState()).length)
OnSync(s) ==
    /\ sess[s].st \in {"subscribed", "tracked"}
    /\ sess[s].viewersCount # KeysLength(Presences(sess[s].poll))
    /\ sess' = [sess EXCEPT ![s].viewersCount = KeysLength(Presences(sess[s].poll))]
    /\ UNCHANGED voteVars

\* the effect cleanup: supabase.removeChannel(channel)
Leave(s) ==
    /\ sess[s].st \in {"joining", "subscribed", "tracked", "failed"}
    /\ sess' = [sess EXCEPT ![s].st = "left", ![s].key = NULL, ![s].poll = NULL]
    /\ UNCHANGED voteVars

(* ---------------------------------------------------------------------- *)
(* PollList actions                                                        *)
(* ---------------------------------------------------------------------- *)
\* fetchPolls up to its await, called from the state l: filter "mine"
\* without a user empties the list and makes no query
FetchPolls(l) ==
    /\ Len(fetches) < MaxFetches
    /\ IF l.filter = "mine" /\ l.userId = NULL
       THEN pl' = [l EXCEPT !.polls = <<>>, !.listed = <<ContextOf(QueryOf(l))>>] /\ fetches' = fetches
       ELSE pl' = l /\ fetches' = Append(fetches, QueryOf(l))

\* the insert listener's effect runs again when page, search or filter
\* changed: the cleanup calls removeChannel without waiting for it, and a
\* new channel is created and asked to subscribe
Resubscribed(l) == [l EXCEPT !.subscribed = FALSE, !.removing = @ + 1]

\* the page is opened by the user uid: the first fetchPolls starts and the
\* channel realtime-polls is created and asked to subscribe
ListOpen(uid) ==
    /\ pl.st = "closed"
    /\ FetchPolls([ClosedList EXCEPT !.st = "open", !.userId = uid,
                                     !.removing = pl.removing])
    /\ UNCHANGED <<pollsTable, inserts, cp, nav, sess, now, poll, votes,
                   localStorage, pd, upserts, rp, reads, notifs>>

\* the channel joined: INSERT events are delivered from now on
ListSubscribed ==
    /\ pl.st = "open"
    /\ ~pl.subscribed
    /\ pl' = [pl EXCEPT !.subscribed = TRUE]
    /\ UNCHANGED <<pollsTable, fetches, inserts, cp, nav, sess, now, poll, votes,
                   localStorage, pd, upserts, rp, reads, notifs>>

\* the search box changes: setPage(1); setSearch(text).  fetchPolls runs at
\* once when the page changed, and for the search once it is debounced
SetSearch(text) ==
    /\ pl.st = "open"
    /\ pl.removing < MaxRemoving
    /\ text # pl.search
    /\ LET l == Resubscribed([pl EXCEPT !.page = 1, !.search = text])
       IN  IF pl.page # 1 THEN FetchPolls(l)
           ELSE pl' = l /\ fetches' = fetches
    /\ inserts' = <<>>
    /\ UNCHANGED <<pollsTable, cp, nav, sess, now, poll, votes,
                   localStorage, pd, upserts, rp, reads, notifs>>

\* useDebounce hands the search text on
Debounce ==
    /\ pl.st = "open"
    /\ pl.debouncedSearch # pl.search
    /\ FetchPolls([pl EXCEPT !.debouncedSearch = pl.search])
    /\ UNCHANGED <<pollsTable, inserts, cp, nav, sess, now, poll, votes,
                   localStorage, pd, upserts, rp, reads, notifs>>

\* a filter button: setPage(1); setFilter(value)
SetFilter(value) ==
    /\ pl.st = "open"
    /\ pl.removing < MaxRemoving
    /\ value # pl.filter \/ pl.page # 1
    /\ FetchPolls(Resubscribed([pl EXCEPT !.page = 1, !.filter = value]))
    /\ inserts' = <<>>
    /\ UNCHANGED <<pollsTable, cp, nav, sess, now, poll, votes,
                   localStorage, pd, upserts, rp, reads, notifs>>

\* the Next button, disabled while the list is shorter than a page
NextPage ==
    /\ pl.st = "open"
    /\ pl.removing < MaxRemoving
    /\ ~(Len(pl.polls) < PAGE_SIZE)
    /\ pl.page < MaxPage
    /\ FetchPolls(Resubscribed([pl EXCEPT !.page = @ + 1]))
    /\ inserts' = <<>>
    /\ UNCHANGED <<pollsTable, cp, nav, sess, now, poll, votes,
                   localStorage, pd, upserts, rp, reads, notifs>>

\* the Previous button, disabled on page 1
PrevPage ==
    /\ pl.st = "open"
    /\ pl.removing < MaxRemoving
    /\ pl.page # 1
    /\ FetchPolls(Resubscribed([pl EXCEPT !.page = @ - 1]))
    /\ inserts' = <<>>
    /\ UNCHANGED <<pollsTable, cp, nav, sess, now, poll, votes,
                   localStorage, pd, upserts, rp, reads, notifs>>

\* fetchPolls after the await: the query is answered from the table and
\* setPolls(data)
FetchPollsDone(i) ==
    /\ i \in DOMAIN fetches
    /\ pl' = [pl EXCEPT !.polls = FetchResult(pollsTable, fetches[i]),
                        !.listed = <<ContextOf(fetches[i])>>]
    /\ fetches' = RemoveAt(fetches, i)
    /\ UNCHANGED <<pollsTable, inserts, cp, nav, sess, now, poll, votes,
                   localStorage, pd, upserts, rp, reads, notifs>>

\* fetchPolls after the await: the query failed, "Failed to load polls."
FetchPollsFail(i) ==
    /\ i \in DOMAIN fetches
    /\ fetches' = RemoveAt(fetches, i)
    /\ UNCHANGED <<pollsTable, pl, inserts, cp, nav, sess, now, poll, votes,
                   localStorage, pd, upserts, rp, reads, notifs>>

\* the insert listener is called with the oldest event on its way
OnPollInsert ==
    /\ pl.st = "open"
    /\ inserts # <<>>
    /\ pl' = IF Admits(pl.page, pl.search, pl.filter)
             THEN [pl EXCEPT !.polls = Admit(@, Head(inserts))]
             ELSE pl
    /\ inserts' = Tail(inserts)
    /\ UNCHANGED <<pollsTable, fetches, cp, nav, sess, now, poll, votes,
                   localStorage, pd, upserts, rp, reads, notifs>>

\* the channel delivers the oldest event once more
Redeliver ==
    /\ inserts # <<>>
    /\ Len(inserts) < MaxInserts
    /\ inserts' = <<Head(inserts)>> \o inserts
    /\ UNCHANGED <<pollsTable, pl, fetches, cp, nav, sess, now, poll, votes,
                   localStorage, pd, upserts, rp, reads, notifs>>

\* a visit to CreatePoll taken as one step: a poll of the given kind is
\* inserted, and a subscribed poll list is sent the INSERT event
PollCreated(kind) ==
    /\ Len(pollsTable) < Len(SeedPolls) + MaxCreated
    /\ pl.subscribed => Len(inserts) < MaxInserts
    /\ LET row == PollRow(Len(pollsTable) + 1, kind, Options)
       IN  /\ pollsTable' = Append(pollsTable, row)
           /\ inserts' = IF pl.subscribed THEN Append(inserts, row) ELSE inserts
    /\ UNCHANGED <<pl, fetches, cp, nav, sess, now, poll, votes,
                   localStorage, pd, upserts, rp, reads, notifs>>

\* removeChannel is done: the client no longer holds the old channel
ChannelRemoved ==
    /\ pl.removing > 0
    /\ pl' = [pl EXCEPT !.removing = @ - 1]
    /\ UNCHANGED <<pollsTable, fetches, inserts, cp, nav, sess, now, poll, votes,
                   localStorage, pd, upserts, rp, reads, notifs>>

\* the page is left: the cleanup calls removeChannel, and what the queries
\* in flight return is set on a component that is gone
ListClose ==
    /\ pl.st = "open"
    /\ pl.removing < MaxRemoving
    /\ pl' = [ClosedList EXCEPT !.removing = pl.removing + 1]
    /\ fetches' = <<>>
    /\ inserts' = <<>>
    /\ UNCHANGED <<pollsTable, cp, nav, sess, now, poll, votes,
                   localStorage, pd, upserts, rp, reads, notifs>>

(* ---------------------------------------------------------------------- *)
(* CreatePoll actions                                                      *)
(* ---------------------------------------------------------------------- *)
\* the user signs in
SignIn(uid) ==
    /\ localStorage.session = NULL
    /\ localStorage' = [localStorage EXCEPT !.session = uid]
    /\ UNCHANGED <<listVars, nav, sess, now, poll, votes, pd, upserts, rp, reads, notifs>>

\* the session ends: the user signs out, here or in another tab
SignOut ==
    /\ localStorage.session # NULL
    /\ localStorage' = [localStorage EXCEPT !.session = NULL]
    /\ UNCHANGED <<listVars, nav, sess, now, poll, votes, pd, upserts, rp, reads, notifs>>

\* the page is opened with the default values; ProtectedRoute renders it
\* when getSession() has a user and redirects to /auth otherwise
FormOpen ==
    /\ cp.st = "closed"
    /\ localStorage.session # NULL
    /\ cp' = [DefaultForm EXCEPT !.toast = cp.toast]
    /\ UNCHANGED <<pollsTable, pl, fetches, inserts, nav, sess, now, poll, votes,
                   localStorage, pd, upserts, rp, reads, notifs>>

\* the user types in the question field
SetQuestion(text) ==
    /\ cp.st = "editing"
    /\ text # cp.question
    /\ cp' = [cp EXCEPT !.question = text]
    /\ UNCHANGED <<pollsTable, pl, fetches, inserts, nav, sess, now, poll, votes,
                   localStorage, pd, upserts, rp, reads, notifs>>

\* the user types in option field i; the fields are filled from the first on
SetOption(i, text) ==
    /\ cp.st = "editing"
    /\ i \in DOMAIN cp.options
    /\ \A j \in 1..(i - 1) : cp.options[j] # <<>>
    /\ text # cp.options[i]
    /\ cp' = [cp EXCEPT !.options[i] = text]
    /\ UNCHANGED <<pollsTable, pl, fetches, inserts, nav, sess, now, poll, votes,
                   localStorage, pd, upserts, rp, reads, notifs>>

\* "+ Add another option", shown while fields.length < 10
AppendOption ==
    /\ cp.st = "editing"
    /\ Len(cp.options) < MaxFields
    /\ cp' = [cp EXCEPT !.options = Append(@, <<>>)]
    /\ UNCHANGED <<pollsTable, pl, fetches, inserts, nav, sess, now, poll, votes,
                   localStorage, pd, upserts, rp, reads, notifs>>

\* the remove button of field i, shown while fields.length > 2
RemoveOption(i) ==
    /\ cp.st = "editing"
    /\ i \in DOMAIN cp.options
    /\ Len(cp.options) > MinFields
    /\ cp' = [cp EXCEPT !.options = RemoveAt(@, i)]
    /\ UNCHANGED <<pollsTable, pl, fetches, inserts, nav, sess, now, poll, votes,
                   localStorage, pd, upserts, rp, reads, notifs>>

\* the form is submitted and valid, so onSubmit runs: with fewer than two
\* options left it shows an error and returns; else auth.getUser() answers
\* uid and the insert is sent
FormSubmit(uid) ==
    /\ cp.st = "editing"
    /\ Valid(cp)
    /\ uid = localStorage.session
    /\ LET trimmedOptions == TrimmedOptions(cp.options)
       IN  IF Len(trimmedOptions) < MinOptions
           THEN cp' = [cp EXCEPT !.toast = "At least 2 non-empty options are required."]
           ELSE cp' = [cp EXCEPT !.st = "submitting",
                                 !.toast = "Creating poll...",
                                 !.pending = <<[question |-> Trim(cp.question),
                                                options |-> trimmedOptions,
                                                created_by |-> uid]>>]
    /\ UNCHANGED <<pollsTable, pl, fetches, inserts, nav, sess, now, poll, votes,
                   localStorage, pd, upserts, rp, reads, notifs>>

\* the insert is admitted by the policy and succeeds: the row is in the
\* table, a subscribed poll list is sent the INSERT event, and the page is
\* left for the poll list
InsertDone ==
    /\ cp.st = "submitting"
    /\ InsertPolicy(localStorage.session, cp.pending[1])
    /\ pl.subscribed => Len(inserts) < MaxInserts
    /\ LET row == PollRow(Len(pollsTable) + 1, cp.pending[1], cp.pending[1].options)
       IN  /\ pollsTable' = Append(pollsTable, row)
           /\ inserts' = IF pl.subscribed THEN Append(inserts, row) ELSE inserts
    /\ cp' = [ClosedForm EXCEPT !.st = "left", !.toast = "Poll created successfully!"]
    /\ UNCHANGED <<pl, fetches, nav, sess, now, poll, votes,
                   localStorage, pd, upserts, rp, reads, notifs>>

\* the insert fails, refused by the policy or for another reason: the form
\* stays as it is
InsertFail ==
    /\ cp.st = "submitting"
    /\ cp' = [cp EXCEPT !.st = "editing", !.toast = "Failed to create poll",
                        !.pending = Null]
    /\ UNCHANGED <<pollsTable, pl, fetches, inserts, nav, sess, now, poll, votes,
                   localStorage, pd, upserts, rp, reads, notifs>>

(* ---------------------------------------------------------------------- *)
(* Actions of the results page after a change of its poll id               *)
(* ---------------------------------------------------------------------- *)
\* the poll id in the page's address changes and the component stays: the
\* cleanup removes the channel of the poll, fetchPollAndUser and fetchVotes
\* start for the new id, and the state of the component stays as it is.
\* The calls made for the former id are still in flight.  (No vote of the
\* new poll is written here, so its channel delivers nothing.)
ResultsChangePoll ==
    /\ rp.st = "open"
    /\ rp' = [rp EXCEPT !.st = "other", !.subscribed = FALSE, !.pollPending = FALSE]
    /\ nav' = [staleReads |-> reads, stalePoll |-> rp.pollPending,
               otherPollPending |-> TRUE, otherReads |-> 1]
    /\ reads' = 0
    /\ notifs' = 0
    /\ UNCHANGED <<listVars, sess, now, poll, votes, localStorage, pd, upserts>>

\* a fetchVotes call made for the former poll id is answered: setVotes(data)
StaleFetchVotesDone ==
    /\ rp.st = "other"
    /\ nav.staleReads > 0
    /\ nav' = [nav EXCEPT !.staleReads = @ - 1]
    /\ rp' = TallyEffect([rp EXCEPT !.votes = SelectVotes(votes)])
    /\ UNCHANGED <<listVars, sess, now, poll, votes, localStorage, pd, upserts,
                   reads, notifs>>

\* a fetchVotes call made for the former poll id fails: setVotes([])
StaleFetchVotesFail ==
    /\ rp.st = "other"
    /\ nav.staleReads > 0
    /\ nav' = [nav EXCEPT !.staleReads = @ - 1]
    /\ rp' = TallyEffect([rp EXCEPT !.votes = <<>>])
    /\ UNCHANGED <<listVars, sess, now, poll, votes, localStorage, pd, upserts,
                   reads, notifs>>

\* the fetchPollAndUser call made for the former poll id is answered
StaleFetchPollDone(found) ==
    /\ rp.st = "other"
    /\ nav.stalePoll
    /\ nav' = [nav EXCEPT !.stalePoll = FALSE]
    /\ rp' = TallyEffect([rp EXCEPT !.poll = IF found THEN <<poll>> ELSE Null])
    /\ UNCHANGED <<listVars, sess, now, poll, votes, localStorage, pd, upserts,
                   reads, notifs>>

\* the fetchPollAndUser call made for the new poll id is answered
OtherFetchPollDone ==
    /\ rp.st = "other"
    /\ nav.otherPollPending
    /\ nav' = [nav EXCEPT !.otherPollPending = FALSE]
    /\ rp' = TallyEffect([rp EXCEPT !.poll = <<OtherPoll>>])
    /\ UNCHANGED <<listVars, sess, now, poll, votes, localStorage, pd, upserts,
                   reads, notifs>>

\* the fetchVotes call made for the new poll id is answered
OtherFetchVotesDone ==
    /\ rp.st = "other"
    /\ nav.otherReads > 0
    /\ nav' = [nav EXCEPT !.otherReads = @ - 1]
    /\ rp' = TallyEffect([rp EXCEPT !.votes = OtherVotes])
    /\ UNCHANGED <<listVars, sess, now, poll, votes, localStorage, pd, upserts,
                   reads, notifs>>

(* ---------------------------------------------------------------------- *)
(* Specifications                                                          *)
(* ---------------------------------------------------------------------- *)
\* the steps of the PollDetail pages P and of the vote table
VoteSteps(P) ==
    \/ \E p \in P, uid \in Users \cup {NULL} : Mount(p, uid)
    \/ \E p \in P : MountFail(p)
    \/ \E p \in P, o \in Range(Options) : HandleChange(p, o)
    \/ \E p \in P : OnSubmit(p)
    \/ \E i \in 1..MaxUpserts : UpsertDone(i)
    \/ \E i \in 1..MaxUpserts : UpsertError(i)
    \/ \E p \in P : Unmount(p)

\* the steps of the results page
ResultsSteps ==
    \/ ResultsOpen
    \/ ResultsSubscribed
    \/ \E found \in BOOLEAN : FetchPollDone(found)
    \/ FetchVotesDone
    \/ FetchVotesFail
    \/ OnVotesChange
    \/ Refresh
    \/ ResultsClose

\* voting: two PollDetail pages and the vote table, for a single-choice
\* poll without an end date
InitVote == Init /\ poll.ends_at = Null /\ ~poll.settings.allowMultiple

Next == VoteSteps(Pages)

Spec == InitVote /\ [][Next]_vars

\* the flags: one PollDetail page, the vote table and visits to the other
\* poll
NextFlag ==
    \/ VoteSteps({"p1"})
    \/ VisitOther

SpecFlag == InitVote /\ [][NextFlag]_vars

\* expiry: one PollDetail page, the vote table and the clock, for a poll
\* with an end date
InitExpiry == Init /\ poll.ends_at # Null

NextExpiry ==
    \/ VoteSteps({"p1"})
    \/ Render("p1")
    \/ Tick

SpecExpiry == InitExpiry /\ [][NextExpiry]_vars

\* results: visits to PollDetail, the vote table and the results page, for
\* a poll without an end date
InitTally == Init /\ poll.ends_at = Null

NextTally ==
    \/ \E uid \in Users \cup {NULL}, sel \in Seq1(Range(Options)) : Visit(uid, sel)
    \/ ResultsSteps

SpecTally == InitTally /\ [][NextTally]_vars

\* the same when no read of the results page fails
NextQuiet ==
    \/ \E uid \in Users \cup {NULL}, sel \in Seq1(Range(Options)) : Visit(uid, sel)
    \/ ResultsOpen
    \/ ResultsSubscribed
    \/ \E found \in BOOLEAN : FetchPollDone(found)
    \/ FetchVotesDone
    \/ OnVotesChange
    \/ Refresh
    \/ ResultsClose

SpecQuiet == InitTally /\ [][NextQuiet]_vars

\* the same next to a change of the results page's poll id
NextSwitch ==
    \/ NextTally
    \/ ResultsChangePoll
    \/ StaleFetchVotesDone
    \/ StaleFetchVotesFail
    \/ \E found \in BOOLEAN : StaleFetchPollDone(found)
    \/ OtherFetchPollDone
    \/ OtherFetchVotesDone

SpecSwitch == InitVote /\ [][NextSwitch]_vars

\* the same next to the CSV export, for a single-choice poll whose votes
\* can be changed
NextExport ==
    \/ NextTally
    \/ ExportCSV

InitExport == InitVote /\ poll.settings.allowVoteChange

SpecExport == InitExport /\ [][NextExport]_vars

\* the same next to another client that writes to the vote table
NextOpen ==
    \/ NextTally
    \/ \E sel \in ForeignSelections : ForeignInsert(sel)

SpecOpen == InitTally /\ [][NextOpen]_vars

\* presence: the pages of this browser that view the poll
NextPresence ==
    \/ \E s \in Sessions, uid \in Users \cup {NULL}, token \in Tokens :
          Join(s, uid, token, "P")
    \/ \E s \in Sessions, status \in SubscribeStates : OnSubscribeStatus(s, status)
    \/ \E s \in Sessions : Tracked(s)
    \/ \E s \in Sessions : OnSync(s)
    \/ \E s \in Sessions : Leave(s)

InitPresence == InitVote /\ ~poll.settings.allowVoteChange

SpecPresence == InitPresence /\ [][NextPresence]_vars

\* presence over two polls: the pages of this browser that view one poll
\* or the other
NextToken ==
    \/ \E s \in Sessions, uid \in {"u1", NULL}, token \in Tokens, pollId \in PollIds :
          Join(s, uid, token, pollId)
    \/ \E s \in Sessions : OnSubscribeStatus(s, "SUBSCRIBED")
    \/ \E s \in Sessions : Tracked(s)
    \/ \E s \in Sessions : OnSync(s)
    \/ \E s \in Sessions : Leave(s)

SpecToken == InitPresence /\ [][NextToken]_vars

\* the poll form: one visit to CreatePoll
NextCreate ==
    \/ \E uid \in Users : SignIn(uid)
    \/ SignOut
    \/ FormOpen
    \/ \E text \in Questions : SetQuestion(text)
    \/ \E i \in 1..MaxFields, text \in Labels : SetOption(i, text)
    \/ AppendOption
    \/ \E i \in 1..MaxFields : RemoveOption(i)
    \/ \E uid \in Users \cup {NULL} : FormSubmit(uid)
    \/ InsertDone
    \/ InsertFail

SpecCreate == InitPresence /\ [][NextCreate]_vars

\* the poll list: one PollList page, the polls table and its INSERT events
NextFeed ==
    \/ \E uid \in {"u1", NULL} : ListOpen(uid)
    \/ ListSubscribed
    \/ \E text \in Searches : SetSearch(text)
    \/ Debounce
    \/ \E value \in Filters : SetFilter(value)
    \/ NextPage
    \/ PrevPage
    \/ \E i \in 1..MaxFetches : FetchPollsDone(i)
    \/ \E i \in 1..MaxFetches : FetchPollsFail(i)
    \/ OnPollInsert
    \/ Redeliver
    \/ \E kind \in Kinds : PollCreated(kind)
    \/ ChannelRemoved
    \/ ListClose

SpecFeed == InitPresence /\ [][NextFeed]_vars

(* ---------------------------------------------------------------------- *)
(* Properties                                                              *)
(* ---------------------------------------------------------------------- *)
\* the sum of the counts of a tally
RECURSIVE SumCounts(_)
SumCounts(counts) ==
    IF DOMAIN counts = {} THEN 0
    ELSE LET o == CHOOSE x \in DOMAIN counts : TRUE
         IN  counts[o] + SumCounts([x \in DOMAIN counts \ {o} |-> counts[x]])

\* the (vote, selected option) pairs of vs whose option is o
Pairs(vs, o) ==
    {<<i, j>> \in (DOMAIN vs) \X (1..(Len(Options) + 1)) :
        j \in DOMAIN vs[i].selected_options /\ vs[i].selected_options[j] = o}

\* the poll is loaded in the results page
PollLoaded == rp.st = "open" /\ rp.poll # Null

C2_OneRowPerUser ==
    \A u \in Users : Cardinality({i \in DOMAIN votes : votes[i].user_id = u}) <= 1

\* C2 witness: a user who has a row has two more submissions in flight, one
\* from each open page
C2_Witness ==
    \E u \in Users :
        /\ SomeVoteOf(votes, u)
        /\ Len(upserts) = 2
        /\ upserts[1].user_id = u /\ upserts[2].user_id = u
        /\ upserts[1].page # upserts[2].page

\* C3 as claimed: the anonymous voter of this browser, whose anon_id token
\* is its identity, has at most one row in the vote table.
C3_OneRowPerAnonymousVoter ==
    Cardinality({i \in DOMAIN votes : votes[i].user_id = NULL}) <= 1

\* the tally of the claim's example
ExampleVotes ==
    <<[selected_options |-> <<"Red">>], [selected_options |-> <<"Blue">>],
      [selected_options |-> <<"Red">>]>>

\* C4: the tally gives each declared option the number of (vote, selected
\* option) pairs of the loaded votes with that option; for the votes
\* [Red], [Blue], [Red] it is Red 2, Blue 1 and the total is 3.
C4_TallyCountsPairs ==
    PollLoaded =>
        /\ \A o \in Range(rp.poll[1].options) :
              rp.voteCounts[o] = Cardinality(Pairs(rp.votes, o))
        /\ rp.votes = ExampleVotes =>
              /\ rp.voteCounts["Red"] = 2
              /\ rp.voteCounts["Blue"] = 1
              /\ TotalVotes(rp.votes) = 3

\* C4 witness: the results page shows the example
C4_Witness == PollLoaded /\ rp.votes = ExampleVotes

\* the rows of a voter that a later row of the same voter with another
\* selection has superseded
Superseded(vs) ==
    {i \in DOMAIN vs : \E j \in DOMAIN vs :
        /\ j > i
        /\ vs[j].user_id = vs[i].user_id
        /\ vs[j].selected_options # vs[i].selected_options}

\* vs without the rows in D
RECURSIVE Keep(_, _, _)
Keep(vs, D, i) ==
    IF i > Len(vs) THEN <<>>
    ELSE (IF i \in D THEN <<>> ELSE <<vs[i]>>) \o Keep(vs, D, i + 1)

\* C5 as claimed: with allowVoteChange, once the results page has re-read
\* the votes, the tally counts for each voter only the new selection, not
\* the selection it replaced.
C5_TallyHasOnlyNewSelection ==
    (poll.settings.allowVoteChange /\ PollLoaded /\ rp.votes = SelectVotes(votes))
        => rp.voteCounts = VoteCounts(Options, Keep(votes, Superseded(votes), 1))

\* the upsert i repeats what the table holds for its voter
Repeats(i) ==
    \E k \in DOMAIN votes :
        /\ votes[k].user_id = upserts[i].user_id
        /\ votes[k].selected_options = upserts[i].selected_options

\* C6 as claimed: an upsert that repeats the voter's stored vote leaves one
\* row with that content and the tally of the table as it was.
C6_RepeatedUpsertIsIdempotent ==
    [][\A i \in DOMAIN upserts :
          (UpsertDone(i) /\ Repeats(i)) =>
              /\ Cardinality({k \in DOMAIN votes' :
                    /\ votes'[k].user_id = upserts[i].user_id
                    /\ votes'[k].selected_options = upserts[i].selected_options}) = 1
              /\ VoteCounts(Options, SelectVotes(votes'))
                    = VoteCounts(Options, SelectVotes(votes))]_vars

C8_NoChangeOnceVoted ==
    [][\A i \in DOMAIN upserts :
          (/\ ~poll.settings.allowVoteChange
           /\ upserts[i].user_id # NULL
           /\ SomeVoteOf(votes, upserts[i].user_id)
           /\ UpsertDone(i)) => votes' = votes]_vars

\* C9 as claimed: no vote is written from a submission made after ends_at.
C9_NoVoteAfterExpiry ==
    [][\A i \in DOMAIN upserts :
          UpsertDone(i) => ~IsExpired(poll, upserts[i].at)]_vars

\* the presence keys joined in the channel
JoinedKeys == {sess[s].key : s \in TrackedSessions}

\* C10: a sync sets the viewer count to the number of distinct presence
\* keys joined; when the last session of a key leaves, that number falls by
\* one, and a key that is joined again while it is joined adds nothing.
C10_ViewersAreDistinctKeys ==
    [][\A s \in Sessions :
          /\ OnSync(s) => sess'[s].viewersCount = Cardinality(JoinedKeys)
          /\ (Leave(s) /\ s \in TrackedSessions) =>
                Cardinality(JoinedKeys') = Cardinality(JoinedKeys)
                    - (IF \E t \in TrackedSessions \ {s} : sess[t].key = sess[s].key
                       THEN 0 ELSE 1)
          /\ (Tracked(s) /\ sess[s].key \in JoinedKeys) =>
                Cardinality(JoinedKeys') = Cardinality(JoinedKeys)]_vars

\* C10 witness: two sessions with the same key and one with another key are
\* tracked, and a sync has set the viewer count of one of them to 2
C10_Witness ==
    \E s, t, u \in Sessions :
        /\ {s, t, u} \subseteq TrackedSessions
        /\ s # t /\ sess[s].key = sess[t].key
        /\ sess[u].key # sess[s].key
        /\ sess[s].viewersCount = 2

\* the list l holds a poll with the id of x
InList(l, x) == \E i \in DOMAIN l : l[i].id = x.id

\* the list the insert listener leaves when it is called with newPoll in
\* the state l
Listened(l, newPoll) ==
    IF Admits(l.page, l.search, l.filter) THEN Admit(l.polls, newPoll) ELSE l.polls

\* C11: with filter "all", an empty search box and page 1, a creation event
\* for a poll that is not in the list leaves the list with that poll first
\* and the previous list after it in its order, less its last element
\* exactly when it held PAGE_SIZE polls.
C11_CreationEventPrepends ==
    [][(/\ OnPollInsert
        /\ pl.filter = "all" /\ pl.search = <<>> /\ pl.page = 1
        /\ ~InList(pl.polls, Head(inserts)))
          => pl'.polls = <<Head(inserts)>> \o
                (IF Len(pl.polls) = PAGE_SIZE
                 THEN SubSeq(pl.polls, 1, PAGE_SIZE - 1)
                 ELSE pl.polls)]_vars

\* C11 witness: the list held the PAGE_SIZE oldest polls, oldest first, when
\* the event of a new poll came: the new poll is first and the last is gone
C11_Witness ==
    /\ pl.filter = "all" /\ pl.search = <<>> /\ pl.page = 1
    /\ Len(pl.polls) = PAGE_SIZE
    /\ pl.polls[1].id = PAGE_SIZE + 1
    /\ \A i \in 2..PAGE_SIZE : pl.polls[i].id = i - 1

\* C12: a creation event that comes while the page is not 1, or the search
\* box is not blank, or the filter is not "all", leaves the list unchanged.
C12_SuppressedEventChangesNothing ==
    [][(/\ OnPollInsert
        /\ (pl.page # 1 \/ Trim(pl.search) # <<>> \/ pl.filter # "all"))
          => pl'.polls = pl.polls]_vars

\* C12 witness: with filter "mine", the event of a poll of this user that
\* the list does not hold is about to be delivered
C12_Witness ==
    /\ pl.st = "open" /\ pl.filter = "mine" /\ pl.page = 1 /\ pl.search = <<>>
    /\ pl.userId # NULL
    /\ inserts # <<>>
    /\ Head(inserts).created_by = pl.userId
    /\ ~InList(pl.polls, Head(inserts))

\* C13: a creation event for a poll that is in the list leaves the list
\* unchanged, and after any creation event the same event once more leaves
\* the list as the first delivery left it.
C13_DuplicateEventIsNoOp ==
    [][OnPollInsert =>
          /\ InList(pl.polls, Head(inserts)) => pl'.polls = pl.polls
          /\ Listened(pl', Head(inserts)) = pl'.polls]_vars

\* C13 witness: the listener admitted a poll, which no query had put before
\* its neighbour in the list, and the same event is about to be delivered
\* again
C13_Witness ==
    /\ pl.st = "open" /\ Admits(pl.page, pl.search, pl.filter)
    /\ inserts # <<>>
    /\ pl.polls # <<>>
    /\ pl.polls[1] = Head(inserts)
    /\ Len(pl.polls) > 1
    /\ pl.polls[2].id < pl.polls[1].id - 1

\* C14: the "has voted" flag of the poll changes only to true and only in
\* the step in which an anonymous voter's upsert for the poll succeeds, and
\* every such step sets it: a failed upsert, a rejected submission, the
\* upsert of an authenticated voter and a vote on the other poll leave it.
C14_FlagSetOnAnonymousSuccess ==
    [][/\ localStorage'.voted # localStorage.voted =>
             /\ localStorage'.voted
             /\ \E i \in DOMAIN upserts :
                   /\ upserts[i].user_id = NULL
                   /\ votes' = Append(votes, [user_id |-> NULL,
                                     selected_options |-> upserts[i].selected_options])
                   /\ upserts' = RemoveAt(upserts, i)
       /\ \A i \in DOMAIN upserts :
             (UpsertDone(i) /\ upserts[i].user_id = NULL) => localStorage'.voted]_vars

\* C14 witness: an authenticated voter's vote is in the table and an
\* anonymous vote on the other poll was made, and the flag is not set
C14_Witness ==
    /\ ~localStorage.voted
    /\ localStorage.votedOther
    /\ \E u \in Users : SomeVoteOf(votes, u)

\* C15 as claimed: when a read of the votes fails while the page shows the
\* tally of votes it has read, the tally stays as it was.
C15_FailedReadKeepsTally ==
    [][(FetchVotesFail /\ PollLoaded /\ rp.subscribed /\ rp.votes # <<>>)
          => rp'.voteCounts = rp.voteCounts]_vars

\* C16 as claimed: when the first read of the votes fails, the page is not
\* attached to the change stream of the poll.  (While the vote table is
\* empty no change was ever notified, and while the poll is being fetched
\* the page shows no button, so the read that fails is the first.)
C16_NoStreamAfterFailedFirstRead ==
    [][(FetchVotesFail /\ votes = <<>> /\ rp.pollPending) => ~rp'.subscribed]_vars

\* C17 as claimed: when no read and no notification is on its way and the
\* subscription is active, the tally shown is the tally of the votes in
\* the table.
C17_SettledTallyIsCurrent ==
    (PollLoaded /\ rp.subscribed /\ ~rp.pollPending /\ reads = 0 /\ notifs = 0)
        => rp.voteCounts = VoteCounts(rp.poll[1].options, SelectVotes(votes))

\* C18 as claimed: once the cleanup for a poll id has run, a read of the
\* votes that was made for that poll id leaves the votes and the tally of
\* the page as they are.
C18_NoUpdateAfterCleanup ==
    [][(StaleFetchVotesDone \/ StaleFetchVotesFail)
          => (rp'.votes = rp.votes /\ rp'.voteCounts = rp.voteCounts)]_vars

\* the rows of table polls that CreatePoll has written
Written == {i \in DOMAIN pollsTable : i > Len(SeedPolls)}

\* the labels are MinOptions to MaxFields texts, each trimmed and not empty
ValidLabels(options) ==
    /\ Len(options) >= MinOptions
    /\ Len(options) <= MaxFields
    /\ \A j \in DOMAIN options :
          /\ options[j] # <<>>
          /\ Head(options[j]) # " "
          /\ options[j][Len(options[j])] # " "

\* the option fields of the form that are not blank
NonBlank(f) == {j \in DOMAIN f.options : \E k \in DOMAIN f.options[j] : f.options[j][k] # " "}

\* C19: every poll CreatePoll has written or is writing has 2 to 10 option
\* labels, each trimmed and not empty; a submission with fewer than 2
\* options that are not blank sends nothing and writes nothing.
C19_WrittenPollHasValidOptions ==
    [][/\ \A i \in Written' : ValidLabels(pollsTable'[i].options)
       /\ cp'.pending # Null => ValidLabels(cp'.pending[1].options)
       /\ (cp.st = "editing" /\ Cardinality(NonBlank(cp)) < MinOptions)
             => (cp'.pending = Null /\ pollsTable' = pollsTable)]_vars

\* C19 witness: a poll with MaxFields options is written and the form is
\* left
C19_Witness ==
    /\ Written # {}
    /\ \E i \in Written : Len(pollsTable[i].options) = MaxFields
    /\ cp.st = "left"

\* the selection is not empty, has no option twice, holds declared options
\* only, and holds one option unless the poll allows several
ValidSelection(sel) ==
    /\ Len(sel) # 0
    /\ \A j, k \in DOMAIN sel : j # k => sel[j] # sel[k]
    /\ Range(sel) \subseteq Range(poll.options)
    /\ ~poll.settings.allowMultiple => Len(sel) = 1

DigitOf(c) == CHOOSE d \in 0..9 : DigitChar[d + 1] = c

\* the number of hundredths a numeral with two decimals stands for
RECURSIVE Hundredths(_, _)
Hundredths(text, acc) ==
    IF text = <<>> THEN acc
    ELSE IF Head(text) = "." THEN Hundredths(Tail(text), acc)
         ELSE Hundredths(Tail(text), 10 * acc + DigitOf(Head(text)))

\* text is a numeral with two decimals
TwoDecimals(text) ==
    /\ Len(text) >= 4
    /\ text[Len(text) - 2] = "."
    /\ \A i \in DOMAIN text : i # Len(text) - 2 => text[i] \in Range(DigitChar)

\* text is value * 100 / total rounded to two decimals
IsPercentOf(text, value, total) ==
    /\ TwoDecimals(text)
    /\ LET d == Hundredths(text, 0) * total - value * 10000
       IN  2 * d <= total /\ -2 * d <= total

\* C22: with no votes the screen shows 0.00 for every option and the CSV
\* export 0%, and nothing is divided; with votes the percent of an option
\* is its count times 100 over the total, rounded to two decimals.
C22_PercentIsGuardedAndRounded ==
    [][LET total == TotalVotes(rp.votes)
       IN  /\ PollLoaded =>
                 \A i \in DOMAIN ChartData(rp) :
                    LET shown == ScreenPercent(ChartData(rp)[i].value, total)
                    IN  IF total = 0 THEN shown = <<"0", ".", "0", "0">>
                        ELSE IsPercentOf(shown, ChartData(rp)[i].value, total)
           /\ ExportCSV =>
                 \A i \in DOMAIN rp'.csv[1] :
                    LET row == rp'.csv[1][i]
                    IN  /\ row.value = ChartData(rp)[i].value
                        /\ IF total = 0 THEN row.percent = <<"0", "%">>
                           ELSE /\ row.percent[Len(row.percent)] = "%"
                                /\ IsPercentOf(SubSeq(row.percent, 1, Len(row.percent) - 1),
                                               row.value, total)]_vars

\* C22 witness: a file was exported while no vote was loaded, with 0% for
\* Red, and the screen now shows 66.67 for Red, two votes of three
C22_Witness ==
    /\ PollLoaded
    /\ rp.csv # Null
    /\ rp.csv[1][1].percent = <<"0", "%">>
    /\ TotalVotes(rp.votes) = 3
    /\ ScreenPercent(ChartData(rp)[1].value, TotalVotes(rp.votes))
          = <<"6", "6", ".", "6", "7">>

\* C23: a notification of the vote table starts a read of the poll's votes
\* and changes nothing else of the page; the votes of the page change only
\* to what a read returned, the rows the table holds or none when it
\* failed; and whenever the tally changes it is the count from zero of the
\* votes of the page.
C23_NotificationStartsFullRead ==
    [][/\ (notifs' = notifs - 1 /\ rp'.st = "open") =>
             (reads' = reads + 1 /\ rp' = rp)
       /\ (rp'.st = "open" /\ rp'.votes # rp.votes) =>
             (reads' = reads - 1 /\ rp'.votes \in {SelectVotes(votes), <<>>})
       /\ (rp'.st = "open" /\ rp'.voteCounts # rp.voteCounts) =>
             /\ rp'.poll # Null
             /\ \A o \in DOMAIN rp'.voteCounts :
                   rp'.voteCounts[o] = Cardinality(Pairs(rp'.votes, o))]_vars

\* C23 witness: the subscribed page holds the two votes of the table, one
\* of them anonymous, every notification was handled and every read was
\* answered, and the tally is the count of the votes the page holds
C23_Witness ==
    /\ PollLoaded /\ rp.subscribed
    /\ notifs = 0 /\ reads = 0
    /\ Len(votes) = 2
    /\ SomeVoteOf(votes, NULL)
    /\ rp.votes = SelectVotes(votes)
    /\ rp.voteCounts = [o \in Range(Options) |-> Cardinality(Pairs(rp.votes, o))]

\* C24: no view is updated from what a notification carries.  For the poll
\* list: the list of an open page changes only to what a query returned
\* from the table, or to the empty list fetchPolls sets without a query.
\* (The tally is rebuilt from a read, C23; the viewer count is taken from
\* the channel's presence state, C10.)
C24_ListChangesOnlyByQuery ==
    [][(pl.st = "open" /\ pl'.st = "open" /\ pl'.polls # pl.polls) =>
          \/ pl'.polls = <<>>
          \/ \E i \in DOMAIN fetches :
                pl'.polls = FetchResult(pollsTable, fetches[i])]_vars

\* the channels of topic realtime-polls the client holds: the one of the
\* open page and those whose removal is under way
PollChannels == (IF pl.st = "open" THEN 1 ELSE 0) + pl.removing

\* C25: the client never holds two channels of the same topic, also when
\* an effect runs again and its cleanup removes the old channel without
\* being waited for.
C25_OneChannelPerTopic == PollChannels <= 1

\* the steps a presence effect may take from one state to the next; a run
\* of the effect after the cleanup has a channel of its own
SessionSteps ==
    {<<"idle", "joining">>, <<"joining", "subscribed">>, <<"joining", "failed">>,
     <<"subscribed", "tracked">>, <<"joining", "left">>, <<"subscribed", "left">>,
     <<"tracked", "left">>, <<"failed", "left">>, <<"left", "joining">>}

\* C26: a presence effect goes from joining to subscribed to tracked to
\* left and takes no other step; track is called on the status SUBSCRIBED
\* and on no other; the viewer count changes in the sync handler only; and
\* a channel that was left does nothing more: the next step of its page is
\* a new run of the effect.
C26_PresenceLifecycle ==
    [][\A s \in Sessions :
          /\ sess'[s].st # sess[s].st => <<sess[s].st, sess'[s].st>> \in SessionSteps
          /\ \A status \in SubscribeStates \ {"SUBSCRIBED"} :
                OnSubscribeStatus(s, status) => sess'[s].st \notin {"subscribed", "tracked"}
          /\ sess'[s].st = "tracked" =>
                sess[s].st \in {"subscribed", "tracked"}
          /\ sess'[s].viewersCount # sess[s].viewersCount =>
                /\ sess[s].st \in {"subscribed", "tracked"}
                /\ sess'[s].st = sess[s].st
                /\ sess'[s].viewersCount = KeysLength(Presences(sess[s].poll))
          /\ sess[s].st = "left" =>
                \/ sess'[s] = sess[s]
                \/ sess'[s].st = "joining" /\ sess'[s].key # NULL]_vars

\* C26 witness: one effect saw two viewers and then left, one failed to
\* subscribe, and one is tracked and saw one viewer
C26_Witness ==
    \E s, t, u \in Sessions :
        /\ sess[s].st = "left" /\ sess[s].viewersCount = 2
        /\ sess[t].st = "failed"
        /\ sess[u].st = "tracked" /\ sess[u].viewersCount = 1

\* the tracked sessions of viewers who are not signed in: their presence
\* key is the token of the device
AnonymousSessions == {s \in TrackedSessions : sess[s].key \in Tokens}

\* C27: two anonymous sessions of one device, which share localStorage and
\* its token, are joined under two distinct presence keys.
C27_AnonymousTabsHaveDistinctKeys ==
    \A s, t \in AnonymousSessions : s # t => sess[s].key # sess[t].key

\* C28: once localStorage holds the token of the device no run of a
\* presence effect replaces it, and the key of every session that is not
\* signed in, whichever poll it views, is that token.
C28_TokenIsKeptAndIsTheKey ==
    [][/\ localStorage.anon_id # NULL => localStorage'.anon_id = localStorage.anon_id
       /\ \A s \in Sessions :
             sess'[s].key \in Tokens => sess'[s].key = localStorage'.anon_id]_vars

\* C28 witness: two sessions that are not signed in are tracked, one on
\* each poll, under the token of the device, and a third session left
C28_Witness ==
    \E s, t, u \in Sessions :
        /\ sess[s].st = "tracked" /\ sess[s].poll = "P"
        /\ sess[t].st = "tracked" /\ sess[t].poll = "Q"
        /\ sess[s].key = localStorage.anon_id
        /\ sess[t].key = localStorage.anon_id
        /\ sess[u].st = "left"

\* C29: the list of the page holds at most PAGE_SIZE polls and no id
\* twice, whatever queries were answered and events were delivered.
C29_ListIsOnePageOfDistinctPolls ==
    /\ Len(pl.polls) <= PAGE_SIZE
    /\ \A i, j \in DOMAIN pl.polls : pl.polls[i].id = pl.polls[j].id => i = j

\* C29 witness: the table holds more polls than a page; the list is full,
\* its head is the newest poll and the oldest poll is no longer in it
C29_Witness ==
    /\ Len(pollsTable) > PAGE_SIZE
    /\ Len(pl.polls) = PAGE_SIZE
    /\ pl.polls[1].id = Len(pollsTable)
    /\ \A i \in DOMAIN pl.polls : pl.polls[i].id # 1

\* C30: an event is merged only into a list that was fetched with an
\* empty search and the filter "all": when a delivered event changes
\* the list, the query whose answer the list was had these, also while
\* the search box has changed and the debounced search has not.
C30_EventMergesIntoListOfItsQuery ==
    [][(/\ OnPollInsert
        /\ pl'.polls # pl.polls
        /\ pl.listed # Null) =>
            /\ Trim(pl.listed[1].search) = <<>>
            /\ pl.listed[1].filter = "all"]_vars

====
